---------------------------- MODULE Spec2Model ----------------------------
(***************************************************************************)
(* The aggregation-and-ranking pipeline of the three notebooks             *)
(*   src/phase zero/book1.py  (district load, pincode drill-down)          *)
(*   src/phase zero/book2.py  (update pressure, imports book1.pincode_df)  *)
(*   src/phase one/book3.py   (age-driven pressure at pincode grain)       *)
(* Every notebook cell that changes a table is one action; a table is a    *)
(* sequence of rows (records), a text cell is a sequence of one-character  *)
(* strings, a ratio cell is an exact fraction <<n, d>> in lowest terms.    *)
(* Floating-point rounding of the ratios is not modelled.                  *)
(***************************************************************************)
EXTENDS Integers, Sequences, FiniteSets, TLC

(***************************************************************************)
(* Bounds of the model.                                                    *)
(***************************************************************************)
\* total number of raw records over the three families of one book1/book2 run
MaxRecs == 3
\* total number of raw records over the two families of one book3 run
MaxRecs3 == 3

(***************************************************************************)
(* Text cells.                                                             *)
(***************************************************************************)
Lowers == <<"a","b","c","d","e","f","g","h","i","j","k","l","m",
            "n","o","p","q","r","s","t","u","v","w","x","y","z">>
Uppers == <<"A","B","C","D","E","F","G","H","I","J","K","L","M",
            "N","O","P","Q","R","S","T","U","V","W","X","Y","Z">>

IndexOf(seq, c) == CHOOSE i \in 1..Len(seq) : seq[i] = c
InSeq(seq, c) == \E i \in 1..Len(seq) : seq[i] = c

IsLower(c) == InSeq(Lowers, c)
IsUpper(c) == InSeq(Uppers, c)
IsCased(c) == IsLower(c) \/ IsUpper(c)
ToUpper(c) == IF IsLower(c) THEN Uppers[IndexOf(Lowers, c)] ELSE c
ToLower(c) == IF IsUpper(c) THEN Lowers[IndexOf(Uppers, c)] ELSE c

\* code point of the characters the model uses (ASCII)
Ord(c) ==
  IF IsUpper(c) THEN 64 + IndexOf(Uppers, c)
  ELSE IF IsLower(c) THEN 96 + IndexOf(Lowers, c)
  ELSE CASE c = " " -> 32
         [] c = "&" -> 38
         [] c = "-" -> 45
         [] c = "?" -> 63
         [] c = "_" -> 95

\* Python's str < str: lexicographic by code point
RECURSIVE StrLess(_, _)
StrLess(s, t) ==
  IF t = <<>> THEN FALSE
  ELSE IF s = <<>> THEN TRUE
  ELSE IF Head(s) # Head(t) THEN Ord(Head(s)) < Ord(Head(t))
  ELSE StrLess(Tail(s), Tail(t))

\* str.title(): a cased character is upper-cased when the character before
\* it is not cased, lower-cased otherwise; uncased characters are kept
RECURSIVE TitleFrom(_, _)
TitleFrom(s, prevCased) ==
  IF s = <<>> THEN <<>>
  ELSE LET c == Head(s) IN
       IF IsCased(c)
       THEN <<IF prevCased THEN ToLower(c) ELSE ToUpper(c)>> \o TitleFrom(Tail(s), TRUE)
       ELSE <<c>> \o TitleFrom(Tail(s), FALSE)
Title(s) == TitleFrom(s, FALSE)

\* str.strip(): leading and trailing whitespace removed
RECURSIVE LStrip(_)
LStrip(s) == IF s # <<>> /\ Head(s) = " " THEN LStrip(Tail(s)) ELSE s
RECURSIVE RStrip(_)
RStrip(s) ==
  IF s # <<>> /\ s[Len(s)] = " " THEN RStrip(SubSeq(s, 1, Len(s) - 1)) ELSE s
Strip(s) == RStrip(LStrip(s))

\* str.replace(old, new) for a one-character old: every occurrence replaced
StrReplace(s, old, new) == [i \in 1..Len(s) |-> IF s[i] = old THEN new ELSE s[i]]

Westbengal == <<"W","e","s","t","b","e","n","g","a","l">>
West_Bengal == <<"W","e","s","t"," ","B","e","n","g","a","l">>
Daman_And_Diu == <<"D","a","m","a","n"," ","A","n","d"," ","D","i","u">>
Daman_Diu == <<"D","a","m","a","n"," ","&"," ","D","i","u">>
Dadra_And_Nagar_Haveli ==
  <<"D","a","d","r","a"," ","A","n","d"," ","N","a","g","a","r"," ","H","a","v","e","l","i">>
Dadra_Nagar_Haveli ==
  <<"D","a","d","r","a"," ","&"," ","N","a","g","a","r"," ","H","a","v","e","l","i">>
Andaman_And_Nicobar_Islands ==
  <<"A","n","d","a","m","a","n"," ","A","n","d"," ","N","i","c","o","b","a","r"," ",
    "I","s","l","a","n","d","s">>
A_N_Islands == <<"A"," ","&"," ","N"," ","I","s","l","a","n","d","s">>

\* region_df['state'].replace({...}): whole-cell replacement
StateAlias(s) ==
  CASE s = Westbengal -> West_Bengal
    [] s = Daman_And_Diu -> Daman_Diu
    [] s = Dadra_And_Nagar_Haveli -> Dadra_Nagar_Haveli
    [] s = Andaman_And_Nicobar_Islands -> A_N_Islands
    [] OTHER -> s

\* book2.py lines 45-51
NormState(s) == StateAlias(Strip(Title(s)))

\* book2.py line 54
NormDistrict(d) == StrReplace(d, "?", "-")

(***************************************************************************)
(* Ratio cells: <<n, d>> with d > 0 in lowest terms; NaN is the undefined  *)
(* marker, Inf what a division of a positive number by 0 would give.       *)
(***************************************************************************)
NaN == <<0, 0>>
Inf == <<1, 0>>
IsDefined(r) == r[2] > 0

RECURSIVE Gcd(_, _)
Gcd(a, b) == IF b = 0 THEN a ELSE Gcd(b, a % b)

Frac(n, d) == LET g == Gcd(n, d) IN IF g = 0 THEN <<n, d>> ELSE <<n \div g, d \div g>>
Whole(n) == <<n, 1>>

\* a >= b on floats: False as soon as one side is NaN
Geq(a, b) == IsDefined(a) /\ IsDefined(b) /\ a[1] * b[2] >= b[1] * a[2]
Gt(a, b) == IsDefined(a) /\ IsDefined(b) /\ a[1] * b[2] > b[1] * a[2]

\* a + b on floats: NaN as soon as one side is NaN
RatAdd(a, b) ==
  IF IsDefined(a) /\ IsDefined(b)
  THEN Frac(a[1] * b[2] + b[1] * a[2], a[2] * b[2])
  ELSE NaN

\* (mutant of SafeRatio: the division without .replace(0, np.nan))
SafeRatio_noreplace(x, y) ==
  IF y = 0 THEN (IF x = 0 THEN NaN ELSE Inf) ELSE Frac(x, y)

\* x / y.replace(0, np.nan): the denominator 0 is made NaN first
SafeRatio(x, y) == IF y = 0 THEN NaN ELSE Frac(x, y)

(***************************************************************************)
(* Series.quantile(q) with q = qn/qd: NaN cells are skipped, the rest is   *)
(* sorted and interpolated linearly at position q * (n - 1).               *)
(***************************************************************************)
Range(s) == {s[i] : i \in DOMAIN s}

CountBelow(vals, v) == Cardinality({i \in DOMAIN vals : Gt(v, vals[i])})
CountUpTo(vals, v) == Cardinality({i \in DOMAIN vals : Geq(v, vals[i])})
\* the k-th smallest cell (1-based) of a sequence of defined cells
KthSmallest(vals, k) ==
  CHOOSE v \in Range(vals) : CountBelow(vals, v) < k /\ k <= CountUpTo(vals, v)

\* the cells a quantile is computed over
Eligible(col) == SelectSeq(col, IsDefined)

Interpolate(vals, qn, qd) ==
  LET n == Len(vals)
      h == qn * (n - 1)
      lo == h \div qd
      f == h % qd
      a == KthSmallest(vals, lo + 1)
      b == KthSmallest(vals, IF lo + 2 <= n THEN lo + 2 ELSE n)
  IN Frac((qd - f) * a[1] * b[2] + f * b[1] * a[2], qd * a[2] * b[2])

Quantile(col, qn, qd) ==
  IF Eligible(col) = <<>> THEN NaN ELSE Interpolate(Eligible(col), qn, qd)

\* .quantile(0.90)
Quantile90(col) == Quantile(col, 9, 10)

(***************************************************************************)
(* Tables.                                                                 *)
(***************************************************************************)
Column(t, col) == [i \in DOMAIN t |-> t[i][col]]
WholeColumn(t, col) == [i \in DOMAIN t |-> Whole(t[i][col])]

RECURSIVE SumSeq(_)
SumSeq(s) == IF s = <<>> THEN 0 ELSE Head(s) + SumSeq(Tail(s))

\* t[mask]: the rows of t, in order, at which the boolean column mask holds
Rows(t, mask) ==
  LET upTo[i \in 0..Len(t)] ==
        IF i = 0 THEN <<>>
        ELSE IF mask[i] THEN Append(upTo[i - 1], t[i]) ELSE upTo[i - 1]
  IN upTo[Len(t)]

\* the key columns of a groupby or merge
OnDistrict == <<"state", "district">>
OnPincode == <<"state", "district", "pincode">>

\* the key of row r on the columns on
KeyAt(r, on) == [i \in DOMAIN on |-> r[on[i]]]
Key2(r) == KeyAt(r, OnDistrict)
Key3(r) == KeyAt(r, OnPincode)

\* tuple order of the group keys: text by code point, then the pincode
KeyLess(a, b) ==
  IF a[1] # b[1] THEN StrLess(a[1], b[1])
  ELSE IF a[2] # b[2] THEN StrLess(a[2], b[2])
  ELSE Len(a) = 3 /\ a[3] < b[3]

RECURSIVE SortKeys(_)
SortKeys(S) ==
  IF S = {} THEN <<>>
  ELSE LET m == CHOOSE x \in S : \A y \in S \ {x} : KeyLess(x, y)
       IN <<m>> \o SortKeys(S \ {m})

KeyRow(k) ==
  IF Len(k) = 3
  THEN [state |-> k[1], district |-> k[2], pincode |-> k[3]]
  ELSE [state |-> k[1], district |-> k[2]]

\* NaN in a count column (a count read from a file is never negative)
MissingCell == -1

\* the cells of a column that are not NaN
Present(col) == SelectSeq(col, LAMBDA v : v # MissingCell)

\* sum of column col over the rows of t whose key is k; .sum() skips NaN
GroupTotal(t, on, k, col) ==
  SumSeq(Present(Column(Rows(t, [i \in DOMAIN t |-> KeyAt(t[i], on) = k]), col)))

\* t.groupby(keys)[cols].sum(): one row per key that occurs, keys ascending
GroupSum(t, on, cols) ==
  LET ks == SortKeys({KeyAt(r, on) : r \in Range(t)})
  IN [i \in DOMAIN ks |->
        [c \in cols |-> GroupTotal(t, on, ks[i], c)] @@ KeyRow(ks[i])]

\* the cell a merge gives column col of a left row: <<v>> from the matching
\* right row, <<>> (missing) when no right row has the key
Matched(right, on, k, col) ==
  LET m == Rows(right, [i \in DOMAIN right |-> KeyAt(right[i], on) = k])
  IN IF m = <<>> THEN <<>> ELSE <<m[1][col]>>

\* left.merge(right, on=keys, how="left") for a right table with one row per
\* key: every left row once, in the left order, with the right columns
MergeLeft(left, right, on, cols) ==
  [i \in DOMAIN left |->
     [c \in cols |-> Matched(right, on, KeyAt(left[i], on), c)] @@ left[i]]

\* df.fillna(0) on the merged columns
FillNa0(t, cols) ==
  [i \in DOMAIN t |->
     [c \in cols |-> IF t[i][c] = <<>> THEN 0 ELSE t[i][c][1]] @@ t[i]]

\* df[col] = values, a column as long as df
WithColumn(t, col, values) == [i \in DOMAIN t |-> (col :> values[i]) @@ t[i]]

\* df.drop(columns=[col])
DropColumn(t, col) ==
  [i \in DOMAIN t |-> [c \in (DOMAIN t[i]) \ {col} |-> t[i][c]]]

\* df[cols]
Project(t, cols) == [i \in DOMAIN t |-> [c \in cols |-> t[i][c]]]

\* (mutant of Concat: the partitions taken last to first)
RECURSIVE Concat_reversed(_)
Concat_reversed(parts) ==
  IF parts = <<>> THEN <<>> ELSE Concat_reversed(Tail(parts)) \o Head(parts)

\* the partitions one after the other, every row as it is
RECURSIVE Chain(_)
Chain(parts) == IF parts = <<>> THEN <<>> ELSE Head(parts) \o Chain(Tail(parts))

\* the column names of a table
Columns(t) == UNION {DOMAIN t[i] : i \in DOMAIN t}

\* pd.concat(parts, ignore_index=True): the rows of the partitions in list
\* order, over the union of their columns, NaN where a row has no cell
Concat(parts) ==
  LET all == Chain(parts)
  IN [i \in DOMAIN all |->
        [c \in Columns(all) |->
           IF c \in DOMAIN all[i] THEN all[i][c] ELSE MissingCell]]

\* df.head(n)
HeadRows(t, n) == SubSeq(t, 1, IF Len(t) < n THEN Len(t) ELSE n)

\* the rows of t in the order p
Reorder(t, p) == [i \in DOMAIN t |-> t[p[i]]]
(***************************************************************************)
(* The input files.                                                        *)
(***************************************************************************)
Medchal_q ==
  <<"M","e","d","c","h","a","l","?","m","a","l","k","a","j","g","i","r","i">>
Medchal_h ==
  <<"M","e","d","c","h","a","l","-","m","a","l","k","a","j","g","i","r","i">>
Medchal_Malkajgiri ==
  <<"M","e","d","c","h","a","l","-","M","a","l","k","a","j","g","i","r","i">>
Goa == <<"G","o","a">>
Zed == <<"Z">>

\* the (state, district, pincode) cells the raw records are drawn from
GeoKeys ==
  << <<Goa, Zed, 403001>>, <<West_Bengal, Medchal_h, 500001>>,
     <<West_Bengal, Medchal_h, 500002>>, <<Westbengal, Medchal_q, 500001>> >>

\* (age_0_5, age_5_17, age_18_greater) of an enrolment record
EnrolCounts == << <<0, 0, 0>>, <<10, 5, 85>>, <<600, 600, 800>> >>
\* (demo_age_5_17, demo_age_17_) of a demographic-update record
DemoCounts == << <<20, 30>>, <<400, 500>> >>
\* (bio_age_5_17, bio_age_17_) of a biometric-update record
BioCounts == << <<450, 450>>, <<500, 600>> >>
\* the same for the runs of book3, whose volume floor is lower
DemoCounts3 == << <<0, 0>>, <<20, 30>>, <<40, 60>> >>
BioCounts3 == << <<30, 20>>, <<90, 10>> >>

EnrolRecord(k, c) ==
  [state |-> k[1], district |-> k[2], pincode |-> k[3], date |-> "01-03-2025",
   age_0_5 |-> c[1], age_5_17 |-> c[2], age_18_greater |-> c[3]]
DemoRecord(k, c) ==
  [state |-> k[1], district |-> k[2], pincode |-> k[3], date |-> "01-03-2025",
   demo_age_5_17 |-> c[1], demo_age_17_ |-> c[2]]
BioRecord(k, c) ==
  [state |-> k[1], district |-> k[2], pincode |-> k[3], date |-> "01-03-2025",
   bio_age_5_17 |-> c[1], bio_age_17_ |-> c[2]]

\* The files of one family with n records: every choice of a place and of
\* counts per record.  The records are listed by place, then counts (the
\* order in which a family lists its records reaches no aggregate).
Choices(n, keys, counts) ==
  {s \in [1..n -> (DOMAIN keys) \X (DOMAIN counts)] :
     \A i \in 1..(n - 1) :
        \/ s[i][1] < s[i + 1][1]
        \/ s[i][1] = s[i + 1][1] /\ s[i][2] <= s[i + 1][2]}

EnrolFiles(n) ==
  {[i \in 1..n |-> EnrolRecord(GeoKeys[s[i][1]], EnrolCounts[s[i][2]])] :
     s \in Choices(n, GeoKeys, EnrolCounts)}
DemoFiles(n) ==
  {[i \in 1..n |-> DemoRecord(GeoKeys[s[i][1]], DemoCounts[s[i][2]])] :
     s \in Choices(n, GeoKeys, DemoCounts)}
BioFiles(n) ==
  {[i \in 1..n |-> BioRecord(GeoKeys[s[i][1]], BioCounts[s[i][2]])] :
     s \in Choices(n, GeoKeys, BioCounts)}
DemoFiles3(n) ==
  {[i \in 1..n |-> DemoRecord(GeoKeys[s[i][1]], DemoCounts3[s[i][2]])] :
     s \in Choices(n, GeoKeys, DemoCounts3)}
BioFiles3(n) ==
  {[i \in 1..n |-> BioRecord(GeoKeys[s[i][1]], BioCounts3[s[i][2]])] :
     s \in Choices(n, GeoKeys, BioCounts3)}

\* number of partition files per family
NumEnrolParts == 3
NumDemoParts == 5
NumBioParts == 4

\* the records of one family laid out over its n partition files: the first
\* two records in file 1, record k + 1 in file k, whatever is left in the
\* last file
Spread(s, n) ==
  [k \in 1..n |->
     IF k = 1 THEN SubSeq(s, 1, IF Len(s) < 2 THEN Len(s) ELSE 2)
     ELSE IF k < n THEN (IF k + 1 <= Len(s) THEN <<s[k + 1]>> ELSE <<>>)
     ELSE SubSeq(s, n + 1, Len(s))]

\* head(10)
TopN == 10

VARIABLES
  pc,                 \* the next cell to run
  enrol_parts, demo_parts, bio_parts,   \* what read_csv returns, per family
  enrol, demo, bio,                     \* book1: unified family tables
  enrol_dist, demo_dist, bio_dist,      \* book1: district aggregates
  district_df, threshold, hotspots, top10_districts,
  enrol_top, demo_top, bio_top,
  enrol_pin, demo_pin, bio_pin,
  pincode_df,
  region_df, ratio_threshold, update_heavy,   \* book2
  maintenance_threshold, maintenance_heavy, top10_maintenance,
  demo3, bio3, demo_pin3, bio_pin3,           \* book3: its demo, bio, ...
  pincode_df3, filtered, adult_threshold, adult_heavy,
  child_threshold, child_heavy,
  adult_export, child_export,                 \* book3: the export tables
  gravity_pincodes, top_pins_clean            \* book1: the gravity points

inputs == <<enrol_parts, demo_parts, bio_parts>>
b1top == <<enrol, demo, bio, enrol_dist, demo_dist, bio_dist, district_df,
           threshold, hotspots, top10_districts>>
b1grav == <<gravity_pincodes, top_pins_clean>>
b1pin == <<enrol_top, demo_top, bio_top, enrol_pin, demo_pin, bio_pin, pincode_df,
           b1grav>>
b2 == <<region_df, ratio_threshold, update_heavy, maintenance_threshold,
        maintenance_heavy, top10_maintenance>>
b3out == <<adult_export, child_export>>
b3 == <<demo3, bio3, demo_pin3, bio_pin3, pincode_df3, filtered,
        adult_threshold, adult_heavy, child_threshold, child_heavy, b3out>>
vars == <<pc, inputs, b1top, b1pin, b2, b3>>

\* no cell of book1 or book2 has run
Blank12 ==
  /\ enrol = <<>> /\ demo = <<>> /\ bio = <<>>
  /\ enrol_dist = <<>> /\ demo_dist = <<>> /\ bio_dist = <<>>
  /\ district_df = <<>> /\ threshold = NaN /\ hotspots = <<>>
  /\ top10_districts = <<>>
  /\ enrol_top = <<>> /\ demo_top = <<>> /\ bio_top = <<>>
  /\ enrol_pin = <<>> /\ demo_pin = <<>> /\ bio_pin = <<>>
  /\ pincode_df = <<>>
  /\ gravity_pincodes = <<>> /\ top_pins_clean = <<>>
  /\ region_df = <<>> /\ ratio_threshold = NaN /\ update_heavy = <<>>
  /\ maintenance_threshold = NaN /\ maintenance_heavy = <<>>
  /\ top10_maintenance = <<>>

\* no cell of book3 has run
Blank3 ==
  /\ demo3 = <<>> /\ bio3 = <<>> /\ demo_pin3 = <<>> /\ bio_pin3 = <<>>
  /\ pincode_df3 = <<>> /\ filtered = <<>>
  /\ adult_threshold = NaN /\ adult_heavy = <<>>
  /\ child_threshold = NaN /\ child_heavy = <<>>
  /\ adult_export = <<>> /\ child_export = <<>>

\* a run of book1 followed by book2, which imports book1
Init12 ==
  /\ pc = "b1_unify"
  /\ \E ne \in 0..MaxRecs :
       \E nd \in 0..(MaxRecs - ne) :
         \E nb \in 0..(MaxRecs - ne - nd) :
           /\ enrol_parts \in {Spread(s, NumEnrolParts) : s \in EnrolFiles(ne)}
           /\ demo_parts \in {Spread(s, NumDemoParts) : s \in DemoFiles(nd)}
           /\ bio_parts \in {Spread(s, NumBioParts) : s \in BioFiles(nb)}
  /\ Blank12
  /\ Blank3

\* a run of book3, which reads the demographic and biometric files only
Init3 ==
  /\ pc = "b3_unify"
  /\ \E nd \in 0..MaxRecs3 :
       \E nb \in 0..(MaxRecs3 - nd) :
         /\ demo_parts \in {Spread(s, NumDemoParts) : s \in DemoFiles3(nd)}
         /\ bio_parts \in {Spread(s, NumBioParts) : s \in BioFiles3(nb)}
  /\ enrol_parts = Spread(<<>>, NumEnrolParts)
  /\ Blank12
  /\ Blank3

Init == Init12 \/ Init3

(***************************************************************************)
(* book1.py                                                                *)
(***************************************************************************)
\* (mutant of TotalEnrolments: the adult bracket left out of the sum)
TotalEnrolments_noadult(t) == [i \in DOMAIN t |-> t[i].age_0_5 + t[i].age_5_17]

\* the derived columns, one cell per row of t
TotalEnrolments(t) ==
  [i \in DOMAIN t |-> t[i].age_0_5 + t[i].age_5_17 + t[i].age_18_greater]
DemoActivity(t) == [i \in DOMAIN t |-> t[i].demo_age_5_17 + t[i].demo_age_17_]
BioActivity(t) == [i \in DOMAIN t |-> t[i].bio_age_5_17 + t[i].bio_age_17_]
TotalActivity(t) ==
  [i \in DOMAIN t |-> t[i].total_enrolments + t[i].demo_activity + t[i].bio_activity]
ActivityPerEnrolment(t) ==
  [i \in DOMAIN t |-> SafeRatio(t[i].total_activity, t[i].total_enrolments)]

\* lines 70-81: concat the partitions, drop the date column
B1Unify ==
  /\ pc = "b1_unify"
  /\ enrol' = DropColumn(Concat(enrol_parts), "date")
  /\ demo' = DropColumn(Concat(demo_parts), "date")
  /\ bio' = DropColumn(Concat(bio_parts), "date")
  /\ pc' = "b1_features"
  /\ UNCHANGED <<inputs, b3, enrol_dist, demo_dist, bio_dist, district_df, threshold,
                 hotspots, top10_districts, b1pin, b2>>

\* lines 87-101
B1Features ==
  /\ pc = "b1_features"
  /\ enrol' = WithColumn(enrol, "total_enrolments", TotalEnrolments(enrol))
  /\ demo' = WithColumn(demo, "demo_activity", DemoActivity(demo))
  /\ bio' = WithColumn(bio, "bio_activity", BioActivity(bio))
  /\ pc' = "b1_aggregate"
  /\ UNCHANGED <<inputs, b3, enrol_dist, demo_dist, bio_dist, district_df, threshold,
                 hotspots, top10_districts, b1pin, b2>>

\* lines 112-128
B1Aggregate ==
  /\ pc = "b1_aggregate"
  /\ enrol_dist' = GroupSum(enrol, OnDistrict, {"total_enrolments"})
  /\ demo_dist' = GroupSum(demo, OnDistrict, {"demo_activity"})
  /\ bio_dist' = GroupSum(bio, OnDistrict, {"bio_activity"})
  /\ pc' = "b1_merge"
  /\ UNCHANGED <<inputs, b3, enrol, demo, bio, district_df, threshold, hotspots,
                 top10_districts, b1pin, b2>>

\* the three-way merge of book1: the enrolment aggregate is the left table
\* of both merges, then fillna(0)
JoinOnEnrolment(e, d, b, on) ==
  FillNa0(MergeLeft(MergeLeft(e, d, on, {"demo_activity"}),
                    b, on, {"bio_activity"}),
          {"demo_activity", "bio_activity"})

\* lines 134-140
B1Merge ==
  /\ pc = "b1_merge"
  /\ district_df' = JoinOnEnrolment(enrol_dist, demo_dist, bio_dist, OnDistrict)
  /\ pc' = "b1_load"
  /\ UNCHANGED <<inputs, b3, enrol, demo, bio, enrol_dist, demo_dist, bio_dist,
                 threshold, hotspots, top10_districts, b1pin, b2>>

\* (mutant of B1Load: replace(0, np.nan, inplace=True) on total_enrolments)
B1Load_inplace ==
  /\ pc = "b1_load"
  /\ district_df' =
       LET a == WithColumn(district_df, "total_activity", TotalActivity(district_df))
           b == WithColumn(a, "activity_per_enrolment", ActivityPerEnrolment(a))
       IN WithColumn(b, "total_enrolments",
                     [i \in DOMAIN b |-> IF b[i].total_enrolments = 0
                                           THEN MissingCell ELSE b[i].total_enrolments])
  /\ pc' = "b1_hotspots"
  /\ UNCHANGED <<inputs, b3, enrol, demo, bio, enrol_dist, demo_dist, bio_dist,
                 threshold, hotspots, top10_districts, b1pin, b2>>

\* lines 149-157
B1Load ==
  /\ pc = "b1_load"
  /\ district_df' =
       LET a == WithColumn(district_df, "total_activity", TotalActivity(district_df))
       IN WithColumn(a, "activity_per_enrolment", ActivityPerEnrolment(a))
  /\ pc' = "b1_hotspots"
  /\ UNCHANGED <<inputs, b3, enrol, demo, bio, enrol_dist, demo_dist, bio_dist,
                 threshold, hotspots, top10_districts, b1pin, b2>>

\* (mutant of AtLeast: > in place of >=)
AtLeast_strict(t, cells, thr) == Rows(t, [i \in DOMAIN t |-> Gt(cells[i], thr)])

\* t[cells >= thr]: the rows of t whose cell is >= thr, in the order of t
AtLeast(t, cells, thr) == Rows(t, [i \in DOMAIN t |-> Geq(cells[i], thr)])

\* the orders of the rows rows in which the cells never increase: any row
\* of the largest cell first, then the others likewise
RECURSIVE DescOrders(_, _)
DescOrders(rows, cells) ==
  IF rows = {} THEN {<<>>}
  ELSE UNION {{<<i>> \o o : o \in DescOrders(rows \ {i}, cells)} :
                i \in {m \in rows : \A j \in rows : Geq(cells[m], cells[j])}}

\* the ways t.sort_values(by the column cells, ascending=False) can come out
SortDesc(t, cells) == {Reorder(t, p) : p \in DescOrders(DOMAIN t, cells)}

\* t[t[col] >= thr].sort_values(col, ascending=False), for a column of
\* ratio cells
HeavyBy(t, col, thr) ==
  LET kept == AtLeast(t, Column(t, col), thr) IN SortDesc(kept, Column(kept, col))

\* the same for a column of whole numbers
HeavyByWhole(t, col, thr) ==
  LET kept == AtLeast(t, WholeColumn(t, col), thr)
  IN SortDesc(kept, WholeColumn(kept, col))

\* lines 163-167
B1Hotspots ==
  /\ pc = "b1_hotspots"
  /\ threshold' = Quantile90(WholeColumn(district_df, "total_activity"))
  /\ hotspots' \in HeavyByWhole(district_df, "total_activity", threshold')
  /\ pc' = "b1_top10"
  /\ UNCHANGED <<inputs, b3, enrol, demo, bio, enrol_dist, demo_dist, bio_dist,
                 district_df, top10_districts, b1pin, b2>>

\* lines 231-235
B1Top10 ==
  /\ pc = "b1_top10"
  /\ top10_districts' \in
       {Project(HeadRows(s, TopN), {"state", "district"}) :
          s \in SortDesc(district_df, WholeColumn(district_df, "total_activity"))}
  /\ pc' = "b1_filter_top"
  /\ UNCHANGED <<inputs, b3, enrol, demo, bio, enrol_dist, demo_dist, bio_dist,
                 district_df, threshold, hotspots, b1pin, b2>>

\* lines 241-246: df.merge(top_districts, how="inner") keeps the rows of df
\* whose (state, district) is a row of top_districts, in the order of df
filter_top_districts(df, top_districts) ==
  Rows(df, [i \in DOMAIN df |->
              \E j \in DOMAIN top_districts : Key2(top_districts[j]) = Key2(df[i])])

\* lines 248-270
B1FilterTop ==
  /\ pc = "b1_filter_top"
  /\ enrol_top' = LET t == filter_top_districts(enrol, top10_districts)
                  IN WithColumn(t, "total_enrolments", TotalEnrolments(t))
  /\ demo_top' = LET t == filter_top_districts(demo, top10_districts)
                 IN WithColumn(t, "demo_activity", DemoActivity(t))
  /\ bio_top' = LET t == filter_top_districts(bio, top10_districts)
                IN WithColumn(t, "bio_activity", BioActivity(t))
  /\ pc' = "b1_agg_pin"
  /\ UNCHANGED <<inputs, b3, b1top, enrol_pin, demo_pin, bio_pin, pincode_df, b1grav, b2>>

\* lines 273-286
B1AggPin ==
  /\ pc = "b1_agg_pin"
  /\ enrol_pin' = GroupSum(enrol_top, OnPincode, {"total_enrolments"})
  /\ demo_pin' = GroupSum(demo_top, OnPincode, {"demo_activity"})
  /\ bio_pin' = GroupSum(bio_top, OnPincode, {"bio_activity"})
  /\ pc' = "b1_pincode_df"
  /\ UNCHANGED <<inputs, b3, b1top, enrol_top, demo_top, bio_top, pincode_df, b1grav, b2>>

\* lines 289-301
B1PincodeDf ==
  /\ pc = "b1_pincode_df"
  /\ pincode_df' = LET t == JoinOnEnrolment(enrol_pin, demo_pin, bio_pin, OnPincode)
                   IN WithColumn(t, "total_activity", TotalActivity(t))
  /\ pc' = "b1_share"
  /\ UNCHANGED <<inputs, b3, b1top, enrol_top, demo_top, bio_top,
                 enrol_pin, demo_pin, bio_pin, b1grav, b2>>

\* x / y as pandas divides two columns: 0 / 0 is NaN, x / 0 is inf
PlainRatio(x, y) == IF y = 0 THEN (IF x = 0 THEN NaN ELSE Inf) ELSE Frac(x, y)

\* groupby(["state", "district"])["total_activity"].transform("sum")
DistrictTotalActivity(t) ==
  [i \in DOMAIN t |-> GroupTotal(t, OnDistrict, Key2(t[i]), "total_activity")]

PincodeActivityShare(t) ==
  [i \in DOMAIN t |-> PlainRatio(t[i].total_activity, t[i].district_total_activity)]

\* lines 309-317
B1Share ==
  /\ pc = "b1_share"
  /\ pincode_df' =
       LET t == WithColumn(pincode_df, "district_total_activity",
                           DistrictTotalActivity(pincode_df))
       IN WithColumn(t, "pincode_activity_share", PincodeActivityShare(t))
  /\ pc' = "b1_gravity"
  /\ UNCHANGED <<inputs, b3, b1top, enrol_top, demo_top, bio_top,
                 enrol_pin, demo_pin, bio_pin, b1grav, b2>>

\* (mutant of GravityShare: an eleventh in place of a tenth)
GravityShare_eleventh == Frac(1, 11)

\* line 324: the share a gravity point has at least
GravityShare == Frac(1, 10)

\* row a comes before row b in sort_values(["state", "district",
\* "pincode_activity_share"], ascending=False)
ComesBefore(a, b) ==
  IF Key2(a) # Key2(b) THEN KeyLess(Key2(b), Key2(a))
  ELSE Gt(a.pincode_activity_share, b.pincode_activity_share)

\* the place of row i of t in that order; rows that tie on the three columns
\* keep the order they have in t (a sort on several columns is a lexsort)
Place(t, i) ==
  1 + Cardinality({j \in DOMAIN t :
        \/ ComesBefore(t[j], t[i])
        \/ ~ComesBefore(t[i], t[j]) /\ j < i})

SortedByDistrictShare(t) ==
  [k \in DOMAIN t |-> t[CHOOSE i \in DOMAIN t : Place(t, i) = k]]

\* lines 323-328
B1Gravity ==
  /\ pc = "b1_gravity"
  /\ gravity_pincodes' =
       SortedByDistrictShare(
         AtLeast(pincode_df, Column(pincode_df, "pincode_activity_share"),
                 GravityShare))
  /\ pc' = "b1_top_pins"
  /\ UNCHANGED <<inputs, b3, b1top, enrol_top, demo_top, bio_top,
                 enrol_pin, demo_pin, bio_pin, pincode_df, top_pins_clean, b2>>

\* line 342: head(10)
TopPins == 10

\* str(n) of a whole number n >= 0
RECURSIVE Str(_)
Str(n) ==
  IF n < 10 THEN <<SubSeq(<<"0","1","2","3","4","5","6","7","8","9">>, n + 1, n + 1)[1]>>
  ELSE Str(n \div 10) \o Str(n % 10)

\* line 346: top_pins_clean['pincode'].astype(str)
PincodeAsStr(t) == [i \in DOMAIN t |-> Str(t[i].pincode)]

\* lines 342-346
B1TopPins ==
  /\ pc = "b1_top_pins"
  /\ \E sorted \in SortDesc(HeadRows(gravity_pincodes, TopPins),
                            Column(HeadRows(gravity_pincodes, TopPins),
                                   "pincode_activity_share")) :
       top_pins_clean' = WithColumn(sorted, "pincode", PincodeAsStr(sorted))
  /\ pc' = "b2_region"
  /\ UNCHANGED <<inputs, b3, b1top, enrol_top, demo_top, bio_top,
                 enrol_pin, demo_pin, bio_pin, pincode_df, gravity_pincodes, b2>>

(***************************************************************************)
(* book2.py                                                                *)
(***************************************************************************)
VOLUME_THRESHOLD == 1000

\* lines 45-54: the state and district cells of every row cleaned in place
CleanNames(t) ==
  [i \in DOMAIN t |->
     [t[i] EXCEPT !.state = NormState(@), !.district = NormDistrict(@)]]

\* (mutant of AboveVolume: >= in place of >)
AboveVolume_geq(t) == [i \in DOMAIN t |-> t[i].total_activity >= VOLUME_THRESHOLD]

\* line 60: region_df["total_activity"] > VOLUME_THRESHOLD
AboveVolume(t) == [i \in DOMAIN t |-> t[i].total_activity > VOLUME_THRESHOLD]

\* lines 32-41: book1's pincode_df grouped by (state, district), with the
\* total activity of each group
Regrouped(t) ==
  LET g == GroupSum(t, OnDistrict,
                    {"total_enrolments", "demo_activity", "bio_activity"})
  IN WithColumn(g, "total_activity", TotalActivity(g))

\* lines 32-55: re-aggregate book1's pincode_df, total activity, clean names
B2Region ==
  /\ pc = "b2_region"
  /\ region_df' = CleanNames(Regrouped(pincode_df))
  /\ pc' = "b2_volume"
  /\ UNCHANGED <<inputs, b3, b1top, b1pin, ratio_threshold, update_heavy,
                 maintenance_threshold, maintenance_heavy, top10_maintenance>>

\* lines 59-60
B2Volume ==
  /\ pc = "b2_volume"
  /\ region_df' = Rows(region_df, AboveVolume(region_df))
  /\ pc' = "b2_ratio"
  /\ UNCHANGED <<inputs, b3, b1top, b1pin, ratio_threshold, update_heavy,
                 maintenance_threshold, maintenance_heavy, top10_maintenance>>

TotalUpdates(t) == [i \in DOMAIN t |-> t[i].demo_activity + t[i].bio_activity]
UpdateToEnrolmentRatio(t) ==
  [i \in DOMAIN t |-> SafeRatio(t[i].total_updates, t[i].total_enrolments)]

\* lines 70-78
B2Ratio ==
  /\ pc = "b2_ratio"
  /\ region_df' =
       LET t == WithColumn(region_df, "total_updates", TotalUpdates(region_df))
       IN WithColumn(t, "update_to_enrolment_ratio", UpdateToEnrolmentRatio(t))
  /\ pc' = "b2_update_heavy"
  /\ UNCHANGED <<inputs, b3, b1top, b1pin, ratio_threshold, update_heavy,
                 maintenance_threshold, maintenance_heavy, top10_maintenance>>

\* lines 89-93
B2UpdateHeavy ==
  /\ pc = "b2_update_heavy"
  /\ ratio_threshold' = Quantile90(Column(region_df, "update_to_enrolment_ratio"))
  /\ update_heavy' \in HeavyBy(region_df, "update_to_enrolment_ratio", ratio_threshold')
  /\ pc' = "b2_split"
  /\ UNCHANGED <<inputs, b3, b1top, b1pin, region_df,
                 maintenance_threshold, maintenance_heavy, top10_maintenance>>

BioToEnrolRatio(t) ==
  [i \in DOMAIN t |-> SafeRatio(t[i].bio_activity, t[i].total_enrolments)]
DemoToEnrolRatio(t) ==
  [i \in DOMAIN t |-> SafeRatio(t[i].demo_activity, t[i].total_enrolments)]
TotalMaintenanceRatio(t) ==
  [i \in DOMAIN t |-> RatAdd(t[i].bio_to_enrol_ratio, t[i].demo_to_enrol_ratio)]

\* lines 192-201
B2Split ==
  /\ pc = "b2_split"
  /\ region_df' =
       LET a == WithColumn(region_df, "bio_to_enrol_ratio", BioToEnrolRatio(region_df))
           b == WithColumn(a, "demo_to_enrol_ratio", DemoToEnrolRatio(a))
       IN WithColumn(b, "total_maintenance_ratio", TotalMaintenanceRatio(b))
  /\ pc' = "b2_maintenance_heavy"
  /\ UNCHANGED <<inputs, b3, b1top, b1pin, ratio_threshold, update_heavy,
                 maintenance_threshold, maintenance_heavy, top10_maintenance>>

\* lines 212-216
B2MaintenanceHeavy ==
  /\ pc = "b2_maintenance_heavy"
  /\ maintenance_threshold' = Quantile90(Column(region_df, "total_maintenance_ratio"))
  /\ maintenance_heavy' \in
       HeavyBy(region_df, "total_maintenance_ratio", maintenance_threshold')
  /\ pc' = "b2_dominant"
  /\ UNCHANGED <<inputs, b3, b1top, b1pin, region_df, ratio_threshold, update_heavy,
                 top10_maintenance>>

\* (mutant of get_dominant_need: >= in place of >)
get_dominant_need_geq(row) ==
  IF Geq(row.bio_to_enrol_ratio, row.demo_to_enrol_ratio)
  THEN "Bio-Heavy (Scanners Needed)"
  ELSE "Demo-Heavy (Data Entry Needed)"

\* lines 238-242
get_dominant_need(row) ==
  IF Gt(row.bio_to_enrol_ratio, row.demo_to_enrol_ratio)
  THEN "Bio-Heavy (Scanners Needed)"
  ELSE "Demo-Heavy (Data Entry Needed)"

\* lines 229-244.  The district cells of the model are at most 20 characters
\* long, which the wrapping lambda of lines 233-235 returns unchanged.
B2Dominant ==
  /\ pc = "b2_dominant"
  /\ top10_maintenance' =
       LET t == HeadRows(maintenance_heavy, TopN)
       IN WithColumn(t, "dominant_need", [i \in DOMAIN t |-> get_dominant_need(t[i])])
  /\ pc' = "done"
  /\ UNCHANGED <<inputs, b3, b1top, b1pin, region_df, ratio_threshold, update_heavy,
                 maintenance_threshold, maintenance_heavy>>

(***************************************************************************)
(* book3.py                                                                *)
(***************************************************************************)
VOLUME_THRESHOLD_3 == 100

\* lines 61-62 (book3 keeps the date column; no later cell reads it)
B3Unify ==
  /\ pc = "b3_unify"
  /\ demo3' = Concat(demo_parts)
  /\ bio3' = Concat(bio_parts)
  /\ pc' = "b3_features"
  /\ UNCHANGED <<inputs, b1top, b1pin, b2, b3out, demo_pin3, bio_pin3, pincode_df3,
                 filtered, adult_threshold, adult_heavy, child_threshold, child_heavy>>


\* lines 78-82
B3Features ==
  /\ pc = "b3_features"
  /\ demo3' = WithColumn(WithColumn(demo3, "activity_5_17",
                                    Column(demo3, "demo_age_5_17")),
                         "activity_17_plus", Column(demo3, "demo_age_17_"))
  /\ bio3' = WithColumn(WithColumn(bio3, "activity_5_17",
                                   Column(bio3, "bio_age_5_17")),
                        "activity_17_plus", Column(bio3, "bio_age_17_"))
  /\ pc' = "b3_aggregate"
  /\ UNCHANGED <<inputs, b1top, b1pin, b2, b3out, demo_pin3, bio_pin3, pincode_df3,
                 filtered, adult_threshold, adult_heavy, child_threshold, child_heavy>>

\* lines 91-101
B3Aggregate ==
  /\ pc = "b3_aggregate"
  /\ demo_pin3' = GroupSum(demo3, OnPincode, {"activity_5_17", "activity_17_plus"})
  /\ bio_pin3' = GroupSum(bio3, OnPincode, {"activity_5_17", "activity_17_plus"})
  /\ pc' = "b3_merge"
  /\ UNCHANGED <<inputs, b1top, b1pin, b2, b3out, demo3, bio3, pincode_df3,
                 filtered, adult_threshold, adult_heavy, child_threshold, child_heavy>>

\* left.merge(right, on=keys, suffixes=("_demo", "_bio"), how="outer") of two
\* tables with one row per key: one row per key of either table, keys
\* ascending, a missing cell (<<>>) where a table has no row for the key
MergeOuter(left, right, on) ==
  LET ks == SortKeys({KeyAt(r, on) : r \in Range(left) \cup Range(right)})
  IN [i \in DOMAIN ks |->
        [activity_5_17_demo |-> Matched(left, on, ks[i], "activity_5_17"),
         activity_17_plus_demo |-> Matched(left, on, ks[i], "activity_17_plus"),
         activity_5_17_bio |-> Matched(right, on, ks[i], "activity_5_17"),
         activity_17_plus_bio |-> Matched(right, on, ks[i], "activity_17_plus")]
        @@ KeyRow(ks[i])]

Activity5_17(t) ==
  [i \in DOMAIN t |-> t[i].activity_5_17_demo + t[i].activity_5_17_bio]
Activity17Plus(t) ==
  [i \in DOMAIN t |-> t[i].activity_17_plus_demo + t[i].activity_17_plus_bio]

\* lines 111-127: the outer merge, fillna(0), the two activity columns and
\* the columns kept
MergedActivity(d, b) ==
  LET m == FillNa0(MergeOuter(d, b, OnPincode),
                   {"activity_5_17_demo", "activity_17_plus_demo",
                    "activity_5_17_bio", "activity_17_plus_bio"})
  IN Project(
       WithColumn(WithColumn(m, "activity_5_17", Activity5_17(m)),
                  "activity_17_plus", Activity17Plus(m)),
       {"state", "district", "pincode", "activity_5_17", "activity_17_plus"})

\* lines 111-132
B3Merge ==
  /\ pc = "b3_merge"
  /\ pincode_df3' = MergedActivity(demo_pin3, bio_pin3)
  /\ pc' = "b3_metric"
  /\ UNCHANGED <<inputs, b1top, b1pin, b2, b3out, demo3, bio3, demo_pin3, bio_pin3,
                 filtered, adult_threshold, adult_heavy, child_threshold, child_heavy>>

TotalUpdateActivity(t) ==
  [i \in DOMAIN t |-> t[i].activity_5_17 + t[i].activity_17_plus]
Age17PlusShare(t) ==
  [i \in DOMAIN t |-> SafeRatio(t[i].activity_17_plus, t[i].total_update_activity)]
Age5_17Share(t) ==
  [i \in DOMAIN t |-> SafeRatio(t[i].activity_5_17, t[i].total_update_activity)]

\* lines 142-157
B3Metric ==
  /\ pc = "b3_metric"
  /\ pincode_df3' =
       LET t == WithColumn(pincode_df3, "total_update_activity",
                           TotalUpdateActivity(pincode_df3))
       IN WithColumn(WithColumn(t, "age_17_plus_share", Age17PlusShare(t)),
                     "age_5_17_share", Age5_17Share(t))
  /\ pc' = "b3_filter"
  /\ UNCHANGED <<inputs, b1top, b1pin, b2, b3out, demo3, bio3, demo_pin3, bio_pin3,
                 filtered, adult_threshold, adult_heavy, child_threshold, child_heavy>>

\* line 169: pincode_df["total_update_activity"] >= VOLUME_THRESHOLD
AtVolume3(t) == [i \in DOMAIN t |-> t[i].total_update_activity >= VOLUME_THRESHOLD_3]

\* lines 167-170
B3Filter ==
  /\ pc = "b3_filter"
  /\ filtered' = Rows(pincode_df3, AtVolume3(pincode_df3))
  /\ pc' = "b3_adult"
  /\ UNCHANGED <<inputs, b1top, b1pin, b2, b3out, demo3, bio3, demo_pin3, bio_pin3,
                 pincode_df3, adult_threshold, adult_heavy, child_threshold,
                 child_heavy>>

\* lines 187-192
B3Adult ==
  /\ pc = "b3_adult"
  /\ adult_threshold' = Quantile90(Column(filtered, "age_17_plus_share"))
  /\ adult_heavy' \in HeavyBy(filtered, "age_17_plus_share", adult_threshold')
  /\ pc' = "b3_child"
  /\ UNCHANGED <<inputs, b1top, b1pin, b2, b3out, demo3, bio3, demo_pin3, bio_pin3,
                 pincode_df3, filtered, child_threshold, child_heavy>>

\* lines 203-208
B3Child ==
  /\ pc = "b3_child"
  /\ child_threshold' = Quantile90(Column(filtered, "age_5_17_share"))
  /\ child_heavy' \in HeavyBy(filtered, "age_5_17_share", child_threshold')
  /\ pc' = "b3_export"
  /\ UNCHANGED <<inputs, b1top, b1pin, b2, b3out, demo3, bio3, demo_pin3, bio_pin3,
                 pincode_df3, filtered, adult_threshold, adult_heavy>>

\* df["priority"] = range(1, len(df) + 1)
Numbered(t) == WithColumn(t, "priority", [i \in DOMAIN t |-> i])

\* line 475
ExportN == 20

\* lines 475-482: the first 20 rows of each ranked output, with the
\* recommendation and the priority
B3Export ==
  /\ pc = "b3_export"
  /\ adult_export' =
       Numbered(WithColumn(
         HeadRows(Project(adult_heavy,
                          {"state", "district", "pincode", "total_update_activity",
                           "age_17_plus_share"}), ExportN),
         "recommendation",
         [i \in DOMAIN HeadRows(adult_heavy, ExportN) |-> "Permanent Aadhaar Center"]))
  /\ child_export' =
       Numbered(WithColumn(
         HeadRows(Project(child_heavy,
                          {"state", "district", "pincode", "total_update_activity",
                           "age_5_17_share"}), ExportN),
         "recommendation",
         [i \in DOMAIN HeadRows(child_heavy, ExportN) |-> "School-Based Aadhaar Camp"]))
  /\ pc' = "done3"
  /\ UNCHANGED <<inputs, b1top, b1pin, b2, demo3, bio3, demo_pin3, bio_pin3,
                 pincode_df3, filtered, adult_threshold, adult_heavy,
                 child_threshold, child_heavy>>

Next ==
  \/ B1Unify
  \/ B1Features
  \/ B1Aggregate
  \/ B1Merge
  \/ B1Load
  \/ B1Hotspots
  \/ B1Top10
  \/ B1FilterTop
  \/ B1AggPin
  \/ B1PincodeDf
  \/ B1Share
  \/ B1Gravity
  \/ B1TopPins
  \/ B2Region
  \/ B2Volume
  \/ B2Ratio
  \/ B2UpdateHeavy
  \/ B2Split
  \/ B2MaintenanceHeavy
  \/ B2Dominant
  \/ B3Unify
  \/ B3Features
  \/ B3Aggregate
  \/ B3Merge
  \/ B3Metric
  \/ B3Filter
  \/ B3Adult
  \/ B3Child
  \/ B3Export

Spec == Init /\ [][Next]_vars

(***************************************************************************)
(* A run of book3 over partitions that disagree on a column name.          *)
(***************************************************************************)
\* a partition file whose header names column old as new
RenameColumn(part, old, new) ==
  [j \in DOMAIN part |->
     [c \in ((DOMAIN part[j]) \ {old}) \cup {new} |->
        IF c = new THEN part[j][old] ELSE part[j][c]]]

\* the partitions with the header of partition p changed
Ragged(parts, p, old, new) ==
  [parts EXCEPT ![p] = RenameColumn(@, old, new)]

\* book3 is run on files of which one demographic or one biometric
\* partition, with rows in it, names its adult count column differently
\* from the other partitions of its family, which also have rows
InitRagged ==
  /\ pc = "b3_unify"
  /\ \E nd \in 0..MaxRecs3 :
       \E nb \in 0..(MaxRecs3 - nd) :
         \E ds \in DemoFiles3(nd), bs \in BioFiles3(nb) :
           \/ /\ nd >= 3
              /\ demo_parts \in
                   {Ragged(Spread(ds, NumDemoParts), p, "demo_age_17_", "demo_age_17_plus") :
                      p \in 1..2}
              /\ bio_parts = Spread(bs, NumBioParts)
           \/ /\ nb >= 3
              /\ demo_parts = Spread(ds, NumDemoParts)
              /\ bio_parts \in
                   {Ragged(Spread(bs, NumBioParts), p, "bio_age_17_", "bio_age_17_plus") :
                      p \in 1..2}
  /\ enrol_parts = Spread(<<>>, NumEnrolParts)
  /\ Blank12
  /\ Blank3

Next3 ==
  \/ B3Unify
  \/ B3Features
  \/ B3Aggregate
  \/ B3Merge
  \/ B3Metric
  \/ B3Filter
  \/ B3Adult
  \/ B3Child
  \/ B3Export

SpecRagged == InitRagged /\ [][Next3]_vars

(***************************************************************************)
(* Runs of book1 on many pincodes.                                         *)
(***************************************************************************)
\* pincodes per district
MaxPins == 4

\* three districts and the pincode before the first pincode of each
WideDistricts ==
  << <<Goa, Zed, 403000>>, <<West_Bengal, Medchal_h, 500000>>,
     <<Westbengal, Medchal_q, 500100>> >>

\* the enrolment counts of pincode j of the n pincodes of a district: graded
\* (10 * n, ..., 20, 10 adults), flat (10 adults each) or skewed (one large
\* pincode, the others small)
WideCounts(profile, n, j) ==
  IF profile = "graded" THEN <<0, 0, 10 * (n + 1 - j)>>
  ELSE IF profile = "flat" THEN <<0, 0, 10>>
  ELSE IF j = 1 THEN EnrolCounts[3] ELSE EnrolCounts[2]

\* one enrolment record per pincode of district d
WideRecords(d, n, profile) ==
  [j \in 1..n |->
     EnrolRecord(<<WideDistricts[d][1], WideDistricts[d][2], WideDistricts[d][3] + j>>,
                 WideCounts(profile, n, j))]

\* book1 is run on enrolment files with up to MaxPins pincodes in each of
\* three districts
InitWide ==
  /\ pc = "b1_unify"
  /\ \E n \in [1..3 -> 0..MaxPins], profile \in [1..3 -> {"graded", "skewed"}] :
       enrol_parts =
         Spread(WideRecords(1, n[1], profile[1]) \o WideRecords(2, n[2], profile[2])
                  \o WideRecords(3, n[3], profile[3]),
                NumEnrolParts)
  /\ demo_parts = Spread(<<>>, NumDemoParts)
  /\ bio_parts = Spread(<<>>, NumBioParts)
  /\ Blank12
  /\ Blank3

Next1 ==
  \/ B1Unify
  \/ B1Features
  \/ B1Aggregate
  \/ B1Merge
  \/ B1Load
  \/ B1Hotspots
  \/ B1Top10
  \/ B1FilterTop
  \/ B1AggPin
  \/ B1PincodeDf
  \/ B1Share
  \/ B1Gravity
  \/ B1TopPins

SpecGravity == InitWide /\ [][Next1]_vars

\* pincodes of the large district
MaxDistrictPins == 11

\* book1 is run on enrolment files with up to MaxDistrictPins pincodes in
\* one district and up to two in another
InitDistrict ==
  /\ pc = "b1_unify"
  /\ \E n \in 0..MaxDistrictPins, m \in 0..2,
        profile \in {"graded", "flat", "skewed"} :
       enrol_parts =
         Spread(WideRecords(1, m, "graded") \o WideRecords(2, n, profile),
                NumEnrolParts)
  /\ demo_parts = Spread(<<>>, NumDemoParts)
  /\ bio_parts = Spread(<<>>, NumBioParts)
  /\ Blank12
  /\ Blank3

\* the cells of book1 up to the gravity points
NextShare ==
  \/ B1Unify
  \/ B1Features
  \/ B1Aggregate
  \/ B1Merge
  \/ B1Load
  \/ B1Hotspots
  \/ B1Top10
  \/ B1FilterTop
  \/ B1AggPin
  \/ B1PincodeDf
  \/ B1Share
  \/ B1Gravity

SpecDistrict == InitDistrict /\ [][NextShare]_vars

(***************************************************************************)
(* Where a run stands.                                                     *)
(***************************************************************************)
Cells12 ==
  <<"b1_unify", "b1_features", "b1_aggregate", "b1_merge", "b1_load",
    "b1_hotspots", "b1_top10", "b1_filter_top", "b1_agg_pin", "b1_pincode_df",
    "b1_share", "b1_gravity", "b1_top_pins", "b2_region", "b2_volume", "b2_ratio", "b2_update_heavy",
    "b2_split", "b2_maintenance_heavy", "b2_dominant", "done">>
Cells3 ==
  <<"b3_unify", "b3_features", "b3_aggregate", "b3_merge", "b3_metric",
    "b3_filter", "b3_adult", "b3_child", "b3_export", "done3">>

\* the position of a cell in its run; the cells of book3 count from 101
CellNo ==
  [c \in Range(Cells12) \cup Range(Cells3) |->
     IF InSeq(Cells12, c) THEN IndexOf(Cells12, c) ELSE 100 + IndexOf(Cells3, c)]

\* the cell named c has run
Ran(c) == CellNo[pc] > CellNo[c] /\ (CellNo[pc] > 100) = (CellNo[c] > 100)

\* the cell named c was the last to run: the tables are as it left them
JustRan(c) == CellNo[pc] = CellNo[c] + 1

\* the raw records of a family, as read
RawEnrol == Concat(enrol_parts)
RawDemo == Concat(demo_parts)
RawBio == Concat(bio_parts)

\* sum of amounts[i] over the records recs[i] whose key on the columns on
\* is k
RawSum(recs, on, k, amounts) ==
  LET upTo[i \in 0..Len(recs)] ==
        IF i = 0 THEN 0
        ELSE upTo[i - 1] + (IF KeyAt(recs[i], on) = k THEN amounts[i] ELSE 0)
  IN upTo[Len(recs)]

KeysOf(t, on) == {KeyAt(r, on) : r \in Range(t)}
RowsAt(t, on, k) == {i \in DOMAIN t : KeyAt(t[i], on) = k}

(***************************************************************************)
(* C1  Join completeness.                                                  *)
(***************************************************************************)
\* a joined table has exactly one row for key k, holding for each family
\* the family's aggregate at k, or 0 where the family has no row at k
JoinedOnce(joined, e, d, b, on, k) ==
  /\ Cardinality(RowsAt(joined, on, k)) = 1
  /\ \A i \in RowsAt(joined, on, k) :
       /\ joined[i].total_enrolments = GroupTotal(e, on, k, "total_enrolments")
       /\ joined[i].demo_activity = GroupTotal(d, on, k, "demo_activity")
       /\ joined[i].bio_activity = GroupTotal(b, on, k, "bio_activity")

\* C1: every GeoUnit key that occurs in the aggregate of at least one family
\* appears exactly once in the joined table (district_df at district grain,
\* pincode_df at pincode grain), with 0 in the columns of every family that
\* has no records for it.
C1_JoinCompleteness ==
  /\ Ran("b1_merge") =>
       \A k \in KeysOf(enrol_dist, OnDistrict) \cup KeysOf(demo_dist, OnDistrict)
                \cup KeysOf(bio_dist, OnDistrict) :
          JoinedOnce(district_df, enrol_dist, demo_dist, bio_dist, OnDistrict, k)
  /\ Ran("b1_pincode_df") =>
       \A k \in KeysOf(enrol_pin, OnPincode) \cup KeysOf(demo_pin, OnPincode)
                \cup KeysOf(bio_pin, OnPincode) :
          JoinedOnce(pincode_df, enrol_pin, demo_pin, bio_pin, OnPincode, k)

(***************************************************************************)
(* C2  Zero-denominator safety.                                            *)
(***************************************************************************)
\* the cells of column col in the rows of t whose column den is not 0
CellsWithDenominator(t, col, den) ==
  Column(SelectSeq(t, LAMBDA r : r[den] # 0), col)

\* the table region_df is cut from: book1's pincode_df re-aggregated, with
\* total activity and cleaned names
RegionBuilt == CleanNames(Regrouped(pincode_df))

RegionColumns ==
  {"state", "district", "total_enrolments", "demo_activity", "bio_activity",
   "total_activity"}

\* C2: in every metric table a row whose ratio denominator is 0 has the
\* undefined marker in the ratio column; the percentile of the ratio is the
\* percentile over the rows with a non-zero denominator; no such row is in
\* the threshold-exceeding subset; computing the ratios drops no row.
C2_ZeroDenominator ==
  /\ Ran("b1_load") =>
       \A i \in DOMAIN district_df :
          district_df[i].total_enrolments = 0
            => district_df[i].activity_per_enrolment = NaN
  /\ JustRan("b1_load") =>
       KeysOf(district_df, OnDistrict) = KeysOf(enrol_dist, OnDistrict)
  /\ Ran("b2_ratio") =>
       \A i \in DOMAIN region_df :
          region_df[i].total_enrolments = 0
            => region_df[i].update_to_enrolment_ratio = NaN
  /\ JustRan("b2_ratio") =>
       Project(region_df, RegionColumns)
         = SelectSeq(RegionBuilt, LAMBDA r : r.total_activity > 1000)
  /\ Ran("b2_update_heavy") =>
       \A i \in DOMAIN update_heavy : update_heavy[i].total_enrolments # 0
  /\ JustRan("b2_update_heavy") =>
       ratio_threshold
         = Quantile90(CellsWithDenominator(region_df, "update_to_enrolment_ratio",
                                           "total_enrolments"))
  /\ Ran("b2_split") =>
       \A i \in DOMAIN region_df :
          region_df[i].total_enrolments = 0
            => /\ region_df[i].bio_to_enrol_ratio = NaN
               /\ region_df[i].demo_to_enrol_ratio = NaN
               /\ region_df[i].total_maintenance_ratio = NaN
  /\ JustRan("b2_split") =>
       Project(region_df, RegionColumns)
         = SelectSeq(RegionBuilt, LAMBDA r : r.total_activity > 1000)
  /\ Ran("b2_maintenance_heavy") =>
       \A i \in DOMAIN maintenance_heavy : maintenance_heavy[i].total_enrolments # 0
  /\ JustRan("b2_maintenance_heavy") =>
       maintenance_threshold
         = Quantile90(CellsWithDenominator(region_df, "total_maintenance_ratio",
                                           "total_enrolments"))
  /\ Ran("b3_metric") =>
       \A i \in DOMAIN pincode_df3 :
          pincode_df3[i].total_update_activity = 0
            => /\ pincode_df3[i].age_17_plus_share = NaN
               /\ pincode_df3[i].age_5_17_share = NaN
  /\ JustRan("b3_metric") =>
       /\ KeysOf(pincode_df3, OnPincode)
            = KeysOf(demo_pin3, OnPincode) \cup KeysOf(bio_pin3, OnPincode)
       /\ Len(pincode_df3) = Cardinality(KeysOf(pincode_df3, OnPincode))
  /\ Ran("b3_adult") =>
       \A i \in DOMAIN adult_heavy : adult_heavy[i].total_update_activity # 0
  /\ JustRan("b3_adult") =>
       adult_threshold
         = Quantile90(CellsWithDenominator(filtered, "age_17_plus_share",
                                           "total_update_activity"))
  /\ Ran("b3_child") =>
       \A i \in DOMAIN child_heavy : child_heavy[i].total_update_activity # 0
  /\ JustRan("b3_child") =>
       child_threshold
         = Quantile90(CellsWithDenominator(filtered, "age_5_17_share",
                                           "total_update_activity"))

\* a region with no enrolments above the volume floor, beside a region with
\* a defined ratio, after update_heavy was cut
C2_Witness ==
  /\ Ran("b2_update_heavy")
  /\ \E i \in DOMAIN region_df : region_df[i].total_enrolments = 0
  /\ \E i \in DOMAIN region_df : region_df[i].update_to_enrolment_ratio # NaN
  /\ update_heavy # <<>>

(***************************************************************************)
(* C3  Key uniqueness after normalization.                                 *)
(***************************************************************************)
\* C3: region_df has exactly one row per normalized (state, district), and
\* the row holds the sums over all rows of pincode_df whose (state, district)
\* normalizes to that key.
C3_KeyUniqueness ==
  pc = "b2_volume" =>
    /\ \A i, j \in DOMAIN region_df :
         Key2(region_df[i]) = Key2(region_df[j]) => i = j
    /\ \A i \in DOMAIN region_df :
         /\ region_df[i].total_enrolments
              = RawSum(CleanNames(pincode_df), OnDistrict, Key2(region_df[i]),
                       Column(pincode_df, "total_enrolments"))
         /\ region_df[i].demo_activity
              = RawSum(CleanNames(pincode_df), OnDistrict, Key2(region_df[i]),
                       Column(pincode_df, "demo_activity"))
         /\ region_df[i].bio_activity
              = RawSum(CleanNames(pincode_df), OnDistrict, Key2(region_df[i]),
                       Column(pincode_df, "bio_activity"))

(***************************************************************************)
(* C4  District normalization result.                                      *)
(***************************************************************************)
\* the districts of pincode_df in the order the re-aggregation lists them,
\* which is the row order of region_df before the volume filter
RegionRawKeys == SortKeys(KeysOf(pincode_df, OnDistrict))

\* C4: the district normalization of book2 maps "Medchal?malkajgiri", and
\* the variant spelling "Medchal-malkajgiri", to "Medchal-Malkajgiri".
C4_MedchalKey ==
  pc = "b2_volume" =>
    \A i \in DOMAIN region_df :
       RegionRawKeys[i][2] \in {Medchal_q, Medchal_h}
         => region_df[i].district = Medchal_Malkajgiri

(***************************************************************************)
(* C5  Aggregation conservation.                                           *)
(***************************************************************************)
\* the fixed linear combinations of the count columns, one amount per raw
\* record
EnrolAmounts ==
  [i \in DOMAIN RawEnrol |->
     RawEnrol[i].age_0_5 + RawEnrol[i].age_5_17 + RawEnrol[i].age_18_greater]
DemoAmounts ==
  [i \in DOMAIN RawDemo |-> RawDemo[i].demo_age_5_17 + RawDemo[i].demo_age_17_]
BioAmounts ==
  [i \in DOMAIN RawBio |-> RawBio[i].bio_age_5_17 + RawBio[i].bio_age_17_]

\* every row of agg holds, in column col, the sum of the amounts of the raw
\* records of its GeoUnit
PerUnit(agg, raw, on, col, amounts) ==
  \A i \in DOMAIN agg : agg[i][col] = RawSum(raw, on, KeyAt(agg[i], on), amounts)

\* agg has one row per GeoUnit of raw, each holding the sum of the amounts
\* of the GeoUnit's records, so the column total is the total over raw
\* (the empty key <<>> is the key of every record on no columns)
Conserves(agg, raw, on, col, amounts) ==
  /\ KeysOf(agg, on) = KeysOf(raw, on)
  /\ Len(agg) = Cardinality(KeysOf(raw, on))
  /\ PerUnit(agg, raw, on, col, amounts)
  /\ SumSeq(Column(agg, col)) = RawSum(raw, <<>>, <<>>, amounts)

\* C5: the aggregated value of a derived column for a GeoUnit is the sum,
\* over the raw records of the GeoUnit, of the fixed linear combination of
\* the count columns; the column total over the aggregate is the total over
\* the records that were aggregated.
C5_Conservation ==
  /\ JustRan("b1_aggregate") =>
       /\ Conserves(enrol_dist, RawEnrol, OnDistrict, "total_enrolments", EnrolAmounts)
       /\ Conserves(demo_dist, RawDemo, OnDistrict, "demo_activity", DemoAmounts)
       /\ Conserves(bio_dist, RawBio, OnDistrict, "bio_activity", BioAmounts)
  /\ JustRan("b1_agg_pin") =>
       /\ PerUnit(enrol_pin, RawEnrol, OnPincode, "total_enrolments", EnrolAmounts)
       /\ PerUnit(demo_pin, RawDemo, OnPincode, "demo_activity", DemoAmounts)
       /\ PerUnit(bio_pin, RawBio, OnPincode, "bio_activity", BioAmounts)
  /\ JustRan("b3_aggregate") =>
       /\ Conserves(demo_pin3, RawDemo, OnPincode, "activity_5_17",
                    Column(RawDemo, "demo_age_5_17"))
       /\ Conserves(demo_pin3, RawDemo, OnPincode, "activity_17_plus",
                    Column(RawDemo, "demo_age_17_"))
       /\ Conserves(bio_pin3, RawBio, OnPincode, "activity_5_17",
                    Column(RawBio, "bio_age_5_17"))
       /\ Conserves(bio_pin3, RawBio, OnPincode, "activity_17_plus",
                    Column(RawBio, "bio_age_17_"))

\* the records (10, 5, 85) and (0, 0, 0) of one district, aggregated to 100
C5_Witness ==
  /\ Ran("b1_aggregate")
  /\ \E i \in DOMAIN enrol_dist :
       /\ enrol_dist[i].total_enrolments = 100
       /\ \E a, b \in DOMAIN RawEnrol :
            /\ a # b
            /\ Key2(RawEnrol[a]) = Key2(enrol_dist[i])
            /\ Key2(RawEnrol[b]) = Key2(enrol_dist[i])
            /\ RawEnrol[a].age_18_greater = 85
            /\ RawEnrol[b].age_18_greater = 0

(***************************************************************************)
(* C6  Threshold inclusion.                                                *)
(***************************************************************************)
\* every row of out has a metric cell >= thr and a volume >= floor
Included(out, cells, thr, volumes, floor) ==
  \A i \in DOMAIN out : Geq(cells[i], thr) /\ volumes[i] >= floor

\* C6: every row of a ranked output (hotspots, update_heavy,
\* maintenance_heavy, adult_heavy, child_heavy) has a metric value >= the
\* percentile computed for the metric, and no row whose total activity is
\* below the volume floor of its grain is in a ranked output.
C6_ThresholdInclusion ==
  /\ Ran("b1_hotspots") =>
       Included(hotspots, WholeColumn(hotspots, "total_activity"), threshold,
                Column(hotspots, "total_activity"), VOLUME_THRESHOLD)
  /\ Ran("b2_update_heavy") =>
       Included(update_heavy, Column(update_heavy, "update_to_enrolment_ratio"),
                ratio_threshold,
                Column(update_heavy, "total_activity"), VOLUME_THRESHOLD)
  /\ Ran("b2_maintenance_heavy") =>
       Included(maintenance_heavy,
                Column(maintenance_heavy, "total_maintenance_ratio"),
                maintenance_threshold,
                Column(maintenance_heavy, "total_activity"), VOLUME_THRESHOLD)
  /\ Ran("b3_adult") =>
       Included(adult_heavy, Column(adult_heavy, "age_17_plus_share"),
                adult_threshold,
                Column(adult_heavy, "total_update_activity"), VOLUME_THRESHOLD_3)
  /\ Ran("b3_child") =>
       Included(child_heavy, Column(child_heavy, "age_5_17_share"),
                child_threshold,
                Column(child_heavy, "total_update_activity"), VOLUME_THRESHOLD_3)

(***************************************************************************)
(* C7  Volume-filter boundary.                                             *)
(***************************************************************************)
\* C7 (as amended): at pincode grain (book3) the volume filter keeps exactly
\* the rows whose total activity is >= 100, so a row at 100 is kept; at
\* district grain (book2) it keeps exactly the rows whose total activity is
\* > 1000, so a row at 1000 is dropped.
C7_VolumeBoundary ==
  /\ JustRan("b2_volume") =>
       Project(region_df, RegionColumns)
         = SelectSeq(RegionBuilt, LAMBDA r : r.total_activity > VOLUME_THRESHOLD)
  /\ JustRan("b3_filter") =>
       filtered = SelectSeq(pincode_df3,
                            LAMBDA r : r.total_update_activity >= VOLUME_THRESHOLD_3)

\* C7 (as claimed): at both grains the filter drops exactly the rows strictly
\* below the threshold, so a row at the threshold is kept.
C7_KeepsAtThreshold ==
  /\ Ran("b2_volume") =>
       Project(region_df, RegionColumns)
         = SelectSeq(RegionBuilt, LAMBDA r : ~(r.total_activity < VOLUME_THRESHOLD))
  /\ Ran("b3_filter") =>
       filtered = SelectSeq(pincode_df3,
                            LAMBDA r : ~(r.total_update_activity < VOLUME_THRESHOLD_3))

\* a district at exactly 1000 was dropped while another district was kept
C7_Witness ==
  /\ pc = "b2_ratio"
  /\ \E i \in DOMAIN RegionBuilt : RegionBuilt[i].total_activity = VOLUME_THRESHOLD
  /\ region_df # <<>>
  /\ \A i \in DOMAIN region_df : region_df[i].total_activity # VOLUME_THRESHOLD

(***************************************************************************)
(* C8  Ranked order with stable tie-break.                                 *)
(***************************************************************************)
\* out is the rows of src whose cell in column col is >= thr, sorted by
\* that cell, never increasing, rows with equal cells in the order they have
\* in src (a whole-number column and its threshold compare as they are)
StableDesc(out, src, col, thr) ==
  /\ \A i \in 1..(Len(out) - 1) : Geq(out[i][col], out[i + 1][col])
  /\ \A i \in DOMAIN out :
       SelectSeq(out, LAMBDA r : r[col] = out[i][col])
         = SelectSeq(src, LAMBDA r : Geq(r[col], thr) /\ r[col] = out[i][col])

\* the column total_activity of t as ratio cells
AsCells(t) ==
  [i \in DOMAIN t |-> [t[i] EXCEPT !.total_activity = Whole(@)]]

\* C8: every ranked output is sorted in non-increasing order of its metric,
\* and rows with equal metric keep the relative order they had in the table
\* that was sorted.
C8_StableRanking ==
  /\ Ran("b1_hotspots") =>
       StableDesc(AsCells(hotspots), AsCells(district_df), "total_activity", threshold)
  /\ Ran("b2_update_heavy") /\ ~Ran("b2_split") =>
       StableDesc(update_heavy, region_df, "update_to_enrolment_ratio",
                  ratio_threshold)
  /\ Ran("b2_maintenance_heavy") =>
       StableDesc(maintenance_heavy, region_df, "total_maintenance_ratio",
                  maintenance_threshold)
  /\ Ran("b3_adult") =>
       StableDesc(adult_heavy, filtered, "age_17_plus_share", adult_threshold)
  /\ Ran("b3_child") =>
       StableDesc(child_heavy, filtered, "age_5_17_share", child_threshold)

(***************************************************************************)
(* C10  Dominant-need tie-break.                                           *)
(***************************************************************************)
\* bio_to_enrol_ratio > demo_to_enrol_ratio, for two defined ratio cells
BioExceedsDemo(r) ==
  r.bio_to_enrol_ratio[1] * r.demo_to_enrol_ratio[2]
    > r.demo_to_enrol_ratio[1] * r.bio_to_enrol_ratio[2]

\* C10: a row of top10_maintenance is classified Bio-Heavy if and only if
\* its bio_to_enrol_ratio is strictly greater than its demo_to_enrol_ratio;
\* in every other case, equality included, it is classified Demo-Heavy.
C10_DominantNeed ==
  Ran("b2_dominant") =>
    \A i \in DOMAIN top10_maintenance :
       LET r == top10_maintenance[i] IN
       /\ IsDefined(r.bio_to_enrol_ratio) /\ IsDefined(r.demo_to_enrol_ratio)
       /\ r.dominant_need \in {"Bio-Heavy (Scanners Needed)",
                               "Demo-Heavy (Data Entry Needed)"}
       /\ r.dominant_need = "Bio-Heavy (Scanners Needed)" <=> BioExceedsDemo(r)

\* a classified row whose two ratios are equal and not zero, beside one that
\* is Bio-Heavy
C10_Witness ==
  /\ Ran("b2_dominant")
  /\ \E i \in DOMAIN top10_maintenance :
       /\ top10_maintenance[i].bio_to_enrol_ratio
            = top10_maintenance[i].demo_to_enrol_ratio
       /\ top10_maintenance[i].bio_to_enrol_ratio[1] > 0
       /\ top10_maintenance[i].dominant_need = "Demo-Heavy (Data Entry Needed)"

(***************************************************************************)
(* C11  Concatenation completeness.                                        *)
(***************************************************************************)
\* the number of rows in the partitions before partition p
Offset(parts, p) ==
  LET upTo[q \in 0..Len(parts)] ==
        IF q = 0 THEN 0 ELSE upTo[q - 1] + Len(parts[q])
  IN upTo[p - 1]

\* a record as read, less its date cell
WithoutDate(r) == [c \in (DOMAIN r) \ {"date"} |-> r[c]]

\* u has as many rows as the partitions together and row j of partition p
\* is row Offset(parts, p) + j of u, so every partition row is in u once,
\* the partitions in their order and the rows of a partition in theirs
UnifiedInOrder(u, parts) ==
  /\ Len(u) = Offset(parts, Len(parts) + 1)
  /\ \A p \in DOMAIN parts :
       \A j \in DOMAIN parts[p] : u[Offset(parts, p) + j] = parts[p][j]

\* the partitions of a family, every row less its date cell
Undated(parts) ==
  [p \in DOMAIN parts |-> [j \in DOMAIN parts[p] |-> WithoutDate(parts[p][j])]]

\* C11: the unified table of a family has exactly as many rows as its
\* partitions together, holds each partition row exactly once, keeps the
\* partitions in their configured order and the row order inside each
\* partition (book1 drops the date column of the unified table, book3 keeps
\* it).
C11_ConcatComplete ==
  /\ JustRan("b1_unify") =>
       /\ UnifiedInOrder(enrol, Undated(enrol_parts))
       /\ UnifiedInOrder(demo, Undated(demo_parts))
       /\ UnifiedInOrder(bio, Undated(bio_parts))
  /\ JustRan("b3_unify") =>
       /\ UnifiedInOrder(demo3, demo_parts)
       /\ UnifiedInOrder(bio3, bio_parts)

\* three different enrolment records, two in the first partition and one in
\* the second, unified
C11_Witness ==
  /\ JustRan("b1_unify")
  /\ Len(enrol_parts[1]) = 2 /\ Len(enrol_parts[2]) = 1
  /\ enrol_parts[1][1] # enrol_parts[1][2]
  /\ enrol_parts[1][2] # enrol_parts[2][1]
  /\ Len(enrol) = 3

(***************************************************************************)
(* C12  Schema mismatch is fatal.                                          *)
(***************************************************************************)
\* two rows of the partitions of a family have different column names
Disagree(parts) ==
  \E p, q \in DOMAIN parts :
     \E i \in DOMAIN parts[p], j \in DOMAIN parts[q] :
        DOMAIN parts[p][i] # DOMAIN parts[q][j]

\* C12: if the partitions of a family disagree on their column names, no
\* unified table, aggregate or ranked output is produced in the run.
C12_SchemaMismatchFatal ==
  Disagree(demo_parts) \/ Disagree(bio_parts) =>
    /\ demo3 = <<>> /\ bio3 = <<>>
    /\ demo_pin3 = <<>> /\ bio_pin3 = <<>>
    /\ pincode_df3 = <<>> /\ filtered = <<>>
    /\ adult_heavy = <<>> /\ child_heavy = <<>>
    /\ adult_export = <<>> /\ child_export = <<>>

(***************************************************************************)
(* C13  Priority rank.                                                     *)
(***************************************************************************)
\* the priority column of export table e is a 1-based dense rank on the
\* ranking metric in column col
DenseRanked(e, col) ==
  /\ e # <<>> => e[1].priority = 1
  /\ \A i \in 1..(Len(e) - 1) : e[i].priority <= e[i + 1].priority
  /\ \A i, j \in DOMAIN e : e[i][col] = e[j][col] => e[i].priority = e[j].priority
  /\ {e[i].priority : i \in DOMAIN e}
       = 1..Cardinality({e[i].priority : i \in DOMAIN e})

\* C13: in adult_export and child_export the priority is a 1-based dense
\* rank in the sorted output order: the first row has 1, priorities never
\* decrease down the table, rows with equal ranking metric share a priority,
\* and the priorities used are a gap-free range starting at 1.
C13_DensePriority ==
  Ran("b3_export") =>
    /\ DenseRanked(adult_export, "age_17_plus_share")
    /\ DenseRanked(child_export, "age_5_17_share")

(***************************************************************************)
(* C14  Metric enrichment frame.                                           *)
(***************************************************************************)
DistrictCounts == {"state", "district", "total_enrolments", "demo_activity",
                   "bio_activity"}
PincodeCounts == DistrictCounts \cup {"pincode"}
ActivityCounts == {"state", "district", "pincode", "activity_5_17",
                   "activity_17_plus"}

\* every row of out is, on the columns cols, a row of src
RowsAmong(out, src, cols) ==
  Range(Project(out, cols)) \subseteq Range(Project(src, cols))

\* C14: once the metrics are computed on a joined table and the volume
\* filter and the ranking have been applied, the aggregated count columns of
\* the table are, row by row, still what the join of the per-family
\* aggregates gave (a total_enrolments of 0 is still 0); the rows the
\* volume filter and the ranking keep carry the counts of rows of the table
\* they were taken from; and the per-family aggregate tables are still the
\* group sums of their family.
C14_EnrichmentFrame ==
  /\ JustRan("b1_hotspots") =>
       /\ Project(district_df, DistrictCounts)
            = JoinOnEnrolment(enrol_dist, demo_dist, bio_dist, OnDistrict)
       /\ enrol_dist = GroupSum(enrol, OnDistrict, {"total_enrolments"})
       /\ demo_dist = GroupSum(demo, OnDistrict, {"demo_activity"})
       /\ bio_dist = GroupSum(bio, OnDistrict, {"bio_activity"})
       /\ Range(hotspots) \subseteq Range(district_df)
  /\ JustRan("b1_gravity") =>
       /\ Project(pincode_df, PincodeCounts)
            = JoinOnEnrolment(enrol_pin, demo_pin, bio_pin, OnPincode)
       /\ enrol_pin = GroupSum(enrol_top, OnPincode, {"total_enrolments"})
       /\ demo_pin = GroupSum(demo_top, OnPincode, {"demo_activity"})
       /\ bio_pin = GroupSum(bio_top, OnPincode, {"bio_activity"})
       /\ RowsAmong(gravity_pincodes, pincode_df, PincodeCounts)
  /\ JustRan("b2_update_heavy") =>
       /\ RowsAmong(region_df, RegionBuilt, DistrictCounts \cup {"total_activity"})
       /\ RowsAmong(update_heavy, region_df, DistrictCounts \cup {"total_activity"})
  /\ JustRan("b3_child") =>
       /\ Project(pincode_df3, ActivityCounts) = MergedActivity(demo_pin3, bio_pin3)
       /\ demo_pin3 = GroupSum(demo3, OnPincode, {"activity_5_17", "activity_17_plus"})
       /\ bio_pin3 = GroupSum(bio3, OnPincode, {"activity_5_17", "activity_17_plus"})
       /\ RowsAmong(filtered, pincode_df3, ActivityCounts)
       /\ RowsAmong(adult_heavy, filtered, ActivityCounts)
       /\ RowsAmong(child_heavy, filtered, ActivityCounts)

\* a district with no enrolment has its metrics computed and is ranked a
\* hotspot with total_enrolments still 0
C14_Witness ==
  /\ Ran("b1_hotspots")
  /\ \E i \in DOMAIN hotspots :
       /\ hotspots[i].total_enrolments = 0
       /\ hotspots[i].activity_per_enrolment = NaN
  /\ Len(district_df) > 1

(***************************************************************************)
(* C16  Re-aggregation round trip.                                         *)
(***************************************************************************)
\* the key of a raw district as region_df spells it after name cleaning
CleanKey(k) == <<NormState(k[1]), NormDistrict(k[2])>>

\* C16: region_df as book2 builds it (before its volume filter) has, for
\* every district of the raw records, a row of that district whose
\* total_enrolments, demo_activity and bio_activity are the sums over all
\* raw records of the district.
C16_RoundTrip ==
  JustRan("b2_region") =>
    \A k \in KeysOf(RawEnrol, OnDistrict) \cup KeysOf(RawDemo, OnDistrict)
               \cup KeysOf(RawBio, OnDistrict) :
      \E i \in DOMAIN region_df :
        /\ Key2(region_df[i]) = CleanKey(k)
        /\ region_df[i].total_enrolments = RawSum(RawEnrol, OnDistrict, k, EnrolAmounts)
        /\ region_df[i].demo_activity = RawSum(RawDemo, OnDistrict, k, DemoAmounts)
        /\ region_df[i].bio_activity = RawSum(RawBio, OnDistrict, k, BioAmounts)

(***************************************************************************)
(* C17  Non-empty threshold set.                                           *)
(***************************************************************************)
\* the rows of src whose metric cell is defined
DefinedRows(cells) == {i \in DOMAIN cells : IsDefined(cells[i])}

\* out, cut from src at the percentile of the metric cells: not empty and
\* holding every row of the largest defined metric when some metric is
\* defined, empty when none is
HoldsTheMaximum(out, src, cells) ==
  IF DefinedRows(cells) = {}
  THEN out = <<>>
  ELSE /\ out # <<>>
       /\ \A i \in DefinedRows(cells) :
            (\A j \in DefinedRows(cells) : Geq(cells[i], cells[j]))
              => src[i] \in Range(out)

\* C17: when at least one row of the table a threshold-mode output is cut
\* from has a defined ranking metric, the output is not empty and holds
\* every row whose metric is the largest defined value; when no row has a
\* defined metric the output is empty (and the cell runs to its end).
C17_NonEmptyThresholdSet ==
  /\ JustRan("b1_hotspots") =>
       HoldsTheMaximum(hotspots, district_df, WholeColumn(district_df, "total_activity"))
  /\ JustRan("b2_update_heavy") =>
       HoldsTheMaximum(update_heavy, region_df,
                       Column(region_df, "update_to_enrolment_ratio"))
  /\ JustRan("b2_maintenance_heavy") =>
       HoldsTheMaximum(maintenance_heavy, region_df,
                       Column(region_df, "total_maintenance_ratio"))
  /\ JustRan("b3_adult") =>
       HoldsTheMaximum(adult_heavy, filtered, Column(filtered, "age_17_plus_share"))
  /\ JustRan("b3_child") =>
       HoldsTheMaximum(child_heavy, filtered, Column(filtered, "age_5_17_share"))

\* three pincodes pass the volume filter and the cut keeps some of them,
\* not all
C17_Witness ==
  /\ JustRan("b3_adult")
  /\ Len(filtered) = 3
  /\ adult_heavy # <<>>
  /\ Len(adult_heavy) < Len(filtered)

\* a district with no enrolment passes the volume filter: its ratio is
\* undefined and update_heavy is empty
C17_UndefinedCase ==
  /\ JustRan("b2_update_heavy")
  /\ region_df # <<>>
  /\ DefinedRows(Column(region_df, "update_to_enrolment_ratio")) = {}
  /\ update_heavy = <<>>

(***************************************************************************)
(* C15  Gravity top-N selection.                                           *)
(***************************************************************************)
\* the gravity pincode g is a row of the selection sel (whose pincode cells
\* are text)
Selected(g, sel) ==
  \E i \in DOMAIN sel :
    /\ Key2(sel[i]) = Key2(g)
    /\ sel[i].pincode = Str(g.pincode)

\* C15: top_pins_clean holds ten gravity pincodes (all of them when there
\* are fewer than ten), and no gravity pincode left out of it has a
\* strictly larger pincode_activity_share than one in it.
C15_TopShares ==
  JustRan("b1_top_pins") =>
    /\ Len(top_pins_clean)
         = (IF Len(gravity_pincodes) < 10 THEN Len(gravity_pincodes) ELSE 10)
    /\ \A i \in DOMAIN top_pins_clean :
         \E g \in Range(gravity_pincodes) :
           /\ Key2(g) = Key2(top_pins_clean[i])
           /\ Str(g.pincode) = top_pins_clean[i].pincode
    /\ \A g \in Range(gravity_pincodes) :
         ~Selected(g, top_pins_clean) =>
           \A i \in DOMAIN top_pins_clean :
             ~Gt(g.pincode_activity_share, top_pins_clean[i].pincode_activity_share)

(***************************************************************************)
(* C18  Gravity-point bound.                                               *)
(***************************************************************************)
\* the gravity pincodes of district k
GravityOf(k) == {i \in DOMAIN gravity_pincodes : Key2(gravity_pincodes[i]) = k}

\* C18: in pincode_df the total_activity of the pincode rows of a district
\* sums to the district_total_activity on each of those rows; a pincode is
\* a gravity pincode exactly when 10 * total_activity >=
\* district_total_activity and district_total_activity > 0; and no district
\* has more than ten gravity pincodes.
C18_GravityBound ==
  Ran("b1_gravity") =>
    /\ \A i \in DOMAIN pincode_df :
         pincode_df[i].district_total_activity
           = RawSum(pincode_df, OnDistrict, Key2(pincode_df[i]),
                    Column(pincode_df, "total_activity"))
    /\ \A i \in DOMAIN pincode_df :
         (pincode_df[i] \in Range(gravity_pincodes))
           <=> /\ 10 * pincode_df[i].total_activity
                    >= pincode_df[i].district_total_activity
               /\ pincode_df[i].district_total_activity > 0
    /\ Range(gravity_pincodes) \subseteq Range(pincode_df)
    /\ \A k \in KeysOf(pincode_df, OnDistrict) : Cardinality(GravityOf(k)) <= 10

\* a district of ten pincodes of equal activity: each has the share 1/10
\* and all ten are gravity pincodes
C18_Witness ==
  /\ Ran("b1_gravity")
  /\ \E k \in KeysOf(pincode_df, OnDistrict) : Cardinality(GravityOf(k)) = 10

\* a district of more than ten pincodes, some of them gravity pincodes
C18_LargeDistrict ==
  /\ Ran("b1_gravity")
  /\ \E k \in KeysOf(pincode_df, OnDistrict) :
       /\ Cardinality({i \in DOMAIN pincode_df : Key2(pincode_df[i]) = k}) > 10
       /\ GravityOf(k) # {}

=============================================================================
